---- MODULE Spec2Model ----
(***************************************************************************)
(* Model of lib/Launcher.js: Launcher.launch (the supervisor of one        *)
(* spawned Chrome child), the process-wide ExitEmitter and                 *)
(* waitForWSEndpoint (the handshake on the child's stderr).                *)
(*                                                                         *)
(* JavaScript runs every callback to completion, so one action is one      *)
(* callback of the event loop together with the promise continuations      *)
(* (microtasks) it schedules: a handshake event that settles the promise   *)
(* of waitForWSEndpoint also runs the continuation of launch's await.      *)
(***************************************************************************)
EXTENDS Integers, Sequences, FiniteSets, TLC

\* The launches (calls of Launcher.launch) of one process.
Launches == {1, 2}

\* How often the caller of a launched browser calls its close hook.
MaxCloseCalls == 2
\* How many stderr lines a child writes.
MaxLines == 2
\* The same two bounds where two children run side by side.
FanMaxCloseCalls == 1
FanMaxLines == 1

\* options.timeout || 30 * 1000
DefaultTimeout == 30000
\* The timeout options a caller passes: none (or 0), or 100 ms.
TimeoutOptions == {0, 100}

\* The events of exitEmitter a launch subscribes to.
Events == {"exit", "SIGINT", "SIGTERM", "SIGHUP"}

\* A stderr line is a sequence of tokens: "P" is the literal text
\* "DevTools listening on ", "W" is "ws://", "c" is any other character.
Lines == {<<"P", "W", "c">>, <<"c">>, <<"c", "P", "W">>}

VARIABLES
  launch,            \* per launch: the closure state of Launcher.launch, its child and its handshake
  exitEmitter,       \* per event: the registered handlers, in registration order
  processListeners,  \* whether ExitEmitter's own listeners on `process` are registered
  process,           \* the supervising process: alive, exit code
  fan                \* the last fan-out of exitEmitter: what was registered, what was invoked

vars == <<launch, exitEmitter, processListeners, process, fan>>

\* chromeProcess.killed is set by ChildProcess.kill() alone; Launcher.js sends
\* its kill with process.kill(-pid), so the flag keeps its initial value.
chromeProcessKilled == FALSE

----------------------------------------------------------------------------
(* The options of launch() and the argument composer (lines 63-97)         *)

\* A command-line argument is <<name>> or <<name, value>>, read name=value.
DEFAULT_ARGS ==
  << <<"--disable-background-networking">>, <<"--disable-background-timer-throttling">>,
     <<"--disable-client-side-phishing-detection">>, <<"--disable-default-apps">>,
     <<"--disable-extensions">>, <<"--disable-hang-monitor">>,
     <<"--disable-popup-blocking">>, <<"--disable-prompt-on-repost">>,
     <<"--disable-sync">>, <<"--disable-translate">>, <<"--metrics-recording-only">>,
     <<"--no-first-run">>, <<"--remote-debugging-port", "0">>,
     <<"--safebrowsing-disable-auto-update">> >>

AUTOMATION_ARGS ==
  << <<"--enable-automation">>, <<"--password-store", "basic">>, <<"--use-mock-keychain">> >>

HEADLESS_ARGS ==
  << <<"--headless">>, <<"--disable-gpu">>, <<"--hide-scrollbars">>, <<"--mute-audio">> >>

\* The argument lists a caller passes as options.args (<<>>: none).
CallerArgs ==
  { <<>>, << <<"--user-data-dir", "/caller-arg">> >>, << <<"--foo">> >> }

\* arg.startsWith('--user-data-dir')
StartsWithUserDataDir(arg) == arg[1] = "--user-data-dir"

\* options.args.some(arg => arg.startsWith('--user-data-dir'))
SomeUserDataDirArg(args) == \E k \in 1..Len(args) : StartsWithUserDataDir(args[k])

\* Every option record: appMode and devtools TRUE when set (devtools === true),
\* headless as passed, userDataDir TRUE when a path is passed.
AllOptions ==
  [handleSIGINT : BOOLEAN, handleSIGTERM : BOOLEAN, handleSIGHUP : BOOLEAN,
   args : CallerArgs, userDataDir : BOOLEAN,
   appMode : BOOLEAN, devtools : BOOLEAN, headless : {"undefined", "true", "false"},
   spawnOk : BOOLEAN,       \* childProcess.spawn found the executable
   timeout : TimeoutOptions]

\* launch() called without options.
DefaultOptions ==
  [handleSIGINT |-> TRUE, handleSIGTERM |-> TRUE, handleSIGHUP |-> TRUE,
   args |-> <<>>, userDataDir |-> FALSE,
   appMode |-> FALSE, devtools |-> FALSE, headless |-> "undefined",
   spawnOk |-> TRUE, timeout |-> 0]

\* Lines 72-74: a temporary directory is made with mkdtemp.
AllocatesTemporaryDir(o) == ~SomeUserDataDirArg(o.args) /\ ~o.userDataDir

\* options.headless after lines 67-68 and 78-81.
Headless(o) == IF o.appMode \/ o.devtools THEN "false" ELSE o.headless

\* chromeArguments with AUTOMATION_ARGS left out when devtools is on too.
chromeArguments_UnlessDevtools(o) ==
  DEFAULT_ARGS
  \o (IF o.appMode \/ o.devtools THEN <<>> ELSE AUTOMATION_ARGS)
  \o (IF ~SomeUserDataDirArg(o.args)
        THEN << <<"--user-data-dir",
                  IF o.userDataDir THEN "options.userDataDir" ELSE "temporaryUserDataDir">> >>
        ELSE <<>>)
  \o (IF o.devtools THEN << <<"--auto-open-devtools-for-tabs">> >> ELSE <<>>)
  \o (IF Headless(o) # "false" THEN HEADLESS_ARGS ELSE <<>>)
  \o o.args

\* chromeArguments as passed to childProcess.spawn for the options o.
chromeArguments(o) ==
  DEFAULT_ARGS
  \o (IF o.appMode THEN <<>> ELSE AUTOMATION_ARGS)
  \o (IF ~SomeUserDataDirArg(o.args)
        THEN << <<"--user-data-dir",
                  IF o.userDataDir THEN "options.userDataDir" ELSE "temporaryUserDataDir">> >>
        ELSE <<>>)
  \o (IF o.devtools THEN << <<"--auto-open-devtools-for-tabs">> >> ELSE <<>>)
  \o (IF Headless(o) # "false" THEN HEADLESS_ARGS ELSE <<>>)
  \o o.args

----------------------------------------------------------------------------
\* The closure of a launch before launch() is called.
IdleLaunch ==
  [ pc |-> "idle",
    handleSIGINT |-> TRUE, handleSIGTERM |-> TRUE, handleSIGHUP |-> TRUE,
    options |-> DefaultOptions,       \* the options launch() was called with
    temporaryUserDataDir |-> FALSE,   \* TRUE: a path allocated by mkdtemp; FALSE: null
    listeners |-> <<>>,               \* the events of this launch's subscriptions
    connection |-> FALSE,             \* TRUE once Connection.create resolved
    chromeClosed |-> FALSE,
    waitForChromeToClose |-> "pending",
    \* the child
    pid |-> FALSE, exited |-> FALSE, errored |-> FALSE, rlClosed |-> FALSE,
    groupGone |-> FALSE, nLines |-> 0,
    seen |-> <<>>,                    \* the lines delivered while the handshake was pending
    \* waitForWSEndpoint
    hsListeners |-> {}, timeoutId |-> "none", stderr |-> <<>>,
    timeoutOpt |-> 0, timeout |-> 0,
    hsState |-> "pending", endpoint |-> <<>>, hsError |-> [kind |-> "none", text |-> <<>>],
    resolveCalls |-> 0, rejectCalls |-> 0,
    \* the temporary directory on disk and its removals
    dir |-> "none", asyncRm |-> "none", rmSync |-> 0, rmAsync |-> 0, deleted |-> 0,
    rmTargets |-> {},                 \* the arguments removeFolder was called with
    \* what the termination controller did
    kills |-> 0, fkRuns |-> 0, fkThrows |-> 0, kcRuns |-> 0, browserClose |-> 0,
    closeCalls |-> 0, closeThrows |-> 0,
    \* the outcome of launch()
    launchResult |-> "none", cause |-> "none", launchErr |-> "none", fkAtReject |-> 0 ]

\* held: the launches that held subscriptions when the event was delivered.
NoFan == [event |-> "none", held |-> {}, snapshot |-> <<>>, invoked |-> <<>>, threw |-> FALSE]

Init ==
  /\ launch = [i \in Launches |-> IdleLaunch]
  /\ exitEmitter = [e \in Events |-> <<>>]
  /\ processListeners = TRUE
  /\ process = [alive |-> TRUE, exitCode |-> -1, uncaught |-> FALSE]
  /\ fan = NoFan

\* A world is what a handler reads and writes: W.launch, W.exitEmitter, and
\* W.threw, set when the handler ended by throwing.
World == [launch |-> launch, exitEmitter |-> exitEmitter, threw |-> FALSE]

Range(s) == {s[k] : k \in 1..Len(s)}

----------------------------------------------------------------------------
(* helper.addEventListener / helper.removeEventListeners (lib/helper.js)   *)

\* emitter.on(eventName, handler): the handler goes to the end of the list.
addEventListener(em, ev, entry) == [em EXCEPT ![ev] = Append(@, entry)]

\* Removes every subscription the array `listeners` of launch i holds and
\* empties the array; a second call finds it empty and removes nothing.
removeEventListeners(W, i) ==
  LET held == Range(W.launch[i].listeners)
  IN [W EXCEPT
        !.exitEmitter = [e \in Events |->
            IF e \in held THEN SelectSeq(@[e], LAMBDA h : h.id # i) ELSE @[e]],
        !.launch[i].listeners = <<>>]

----------------------------------------------------------------------------
(* The termination controller: forceKillChrome and killChrome              *)
\* removeFolder.sync called with the directory of the --user-data-dir argument
\* of line 76, options.userDataDir || temporaryUserDataDir.
removeFolderSync_ProfileDir(L, ok) ==
  IF L.options.userDataDir THEN [L EXCEPT !.rmTargets = @ \cup {"options.userDataDir"}]
  ELSE IF ~L.temporaryUserDataDir THEN [L EXCEPT !.rmTargets = @ \cup {"null"}]
  ELSE [L EXCEPT !.rmSync = @ + 1,
                 !.rmTargets = @ \cup {"temporaryUserDataDir"},
                 !.dir = IF @ = "present" /\ ok THEN "absent" ELSE @,
                 !.deleted = IF L.dir = "present" /\ ok THEN @ + 1 ELSE @]

\* removeFolder.sync(temporaryUserDataDir) inside try/catch: with null it
\* throws at once; with a path it removes the tree (ok) or fails (~ok, for
\* example while the child still writes to it); either error is swallowed.
removeFolderSync(L, ok) ==
  IF ~L.temporaryUserDataDir THEN [L EXCEPT !.rmTargets = @ \cup {"null"}]
  ELSE [L EXCEPT !.rmSync = @ + 1,
                 !.rmTargets = @ \cup {"temporaryUserDataDir"},
                 !.dir = IF @ = "present" /\ ok THEN "absent" ELSE @,
                 !.deleted = IF L.dir = "present" /\ ok THEN @ + 1 ELSE @]

\* forceKillChrome with the removal moved inside the `if` of the kill.
forceKillChrome_RemovalInsideIf(W, i, ok) ==
  LET W1 == removeEventListeners(W, i)
      L == W1.launch[i]
      sendsKill == L.pid /\ ~chromeProcessKilled /\ ~L.chromeClosed
  IN IF sendsKill /\ L.groupGone
       THEN [W1 EXCEPT !.threw = TRUE,
                       !.launch[i].fkRuns = @ + 1,
                       !.launch[i].fkThrows = @ + 1]
       ELSE IF sendsKill
         THEN [W1 EXCEPT !.launch[i] =
                 removeFolderSync([L EXCEPT !.fkRuns = @ + 1, !.kills = @ + 1], ok)]
         ELSE [W1 EXCEPT !.launch[i].fkRuns = @ + 1]

\* process.kill(-pid, 'SIGKILL') throws ESRCH when the process group is gone.
forceKillChrome(W, i, ok) ==
  LET W1 == removeEventListeners(W, i)
      L == W1.launch[i]
      sendsKill == L.pid /\ ~chromeProcessKilled /\ ~L.chromeClosed
  IN IF sendsKill /\ L.groupGone
       THEN [W1 EXCEPT !.threw = TRUE,
                       !.launch[i].fkRuns = @ + 1,
                       !.launch[i].fkThrows = @ + 1]
       ELSE [W1 EXCEPT !.launch[i] =
               removeFolderSync([L EXCEPT !.fkRuns = @ + 1,
                                          !.kills = IF sendsKill THEN @ + 1 ELSE @], ok)]
\* killChrome sending Browser.close whether or not a directory is owned.
killChrome_BrowserCloseAlways(W, i, ok) ==
  LET W1 == [removeEventListeners(W, i) EXCEPT !.launch[i].kcRuns = @ + 1]
      L == W1.launch[i]
  IN IF L.connection THEN [W1 EXCEPT !.launch[i].browserClose = @ + 1]
     ELSE W1
\* killChrome releasing with exitEmitter.removeAllListeners() in place of
\* helper.removeEventListeners(listeners).
killChrome_RemoveAllListeners(W, i, ok) ==
  LET W1 == [W EXCEPT !.exitEmitter = [e \in Events |-> <<>>],
                      !.launch[i].listeners = <<>>,
                      !.launch[i].kcRuns = @ + 1]
      L == W1.launch[i]
  IN IF L.temporaryUserDataDir THEN forceKillChrome(W1, i, ok)
     ELSE IF L.connection THEN [W1 EXCEPT !.launch[i].browserClose = @ + 1]
     ELSE W1

\* Returns waitForChromeToClose (the field of that name is the promise).
killChrome(W, i, ok) ==
  LET W1 == [removeEventListeners(W, i) EXCEPT !.launch[i].kcRuns = @ + 1]
      L == W1.launch[i]
  IN IF L.temporaryUserDataDir THEN forceKillChrome(W1, i, ok)
     ELSE IF L.connection THEN [W1 EXCEPT !.launch[i].browserClose = @ + 1]
     ELSE W1

\* The close handler fulfilling at once, whether or not a directory is owned.
onChromeClose_FulfillAtOnce(L) ==
  IF L.temporaryUserDataDir
    THEN [L EXCEPT !.chromeClosed = TRUE, !.rmAsync = @ + 1, !.asyncRm = "pending",
                   !.waitForChromeToClose = "fulfilled"]
    ELSE [L EXCEPT !.chromeClosed = TRUE, !.waitForChromeToClose = "fulfilled"]

\* chromeProcess.once('close', ...)
onChromeClose(L) ==
  IF L.temporaryUserDataDir
    THEN [L EXCEPT !.chromeClosed = TRUE, !.rmAsync = @ + 1, !.asyncRm = "pending",
                   !.rmTargets = @ \cup {"temporaryUserDataDir"}]
    ELSE [L EXCEPT !.chromeClosed = TRUE, !.waitForChromeToClose = "fulfilled"]

\* removeFolderAsync(...).then(() => fulfill()).catch(err => console.error(err))
onRemoveFolderAsync(L, ok) ==
  IF ok
    THEN [L EXCEPT !.asyncRm = "done", !.waitForChromeToClose = "fulfilled",
                   !.dir = "absent",
                   !.deleted = IF L.dir = "present" THEN @ + 1 ELSE @]
    ELSE [L EXCEPT !.asyncRm = "failed"]

----------------------------------------------------------------------------
(* waitForWSEndpoint                                                       *)
\* The pattern without its anchor ^: the prefix may start anywhere in the line.
Matches_Unanchored(line) ==
  \E k \in 1..(Len(line) - 1) : line[k] = "P" /\ line[k + 1] = "W"

\* line.match(/^DevTools listening on (ws:\/\/.*)$/)
Matches(line) == Len(line) >= 2 /\ line[1] = "P" /\ line[2] = "W"
Capture(line) == Tail(line)

\* The promise's resolve and reject: the first call settles it.
resolve(L, v) ==
  [L EXCEPT !.resolveCalls = @ + 1,
            !.hsState = IF @ = "pending" THEN "resolved" ELSE @,
            !.endpoint = IF L.hsState = "pending" THEN v ELSE @]

reject(L, e) ==
  [L EXCEPT !.rejectCalls = @ + 1,
            !.hsState = IF @ = "pending" THEN "rejected" ELSE @,
            !.hsError = IF L.hsState = "pending" THEN e ELSE @]

\* cleanup that cancels the timer and leaves the listeners attached.
cleanup_TimerOnly(L) ==
  [L EXCEPT !.timeoutId = IF @ = "armed" THEN "cleared" ELSE @]
\* cleanup that detaches the listeners and leaves the timer running.
cleanup_ListenersOnly(L) ==
  [L EXCEPT !.hsListeners = {}]

cleanup(L) ==
  [L EXCEPT !.timeoutId = IF @ = "armed" THEN "cleared" ELSE @,
            !.hsListeners = {}]

onClose(L, error) ==
  reject(cleanup(L),
         [kind |-> IF error THEN "LaunchErrorWithCause" ELSE "LaunchError",
          text |-> L.stderr])

onTimeout(L) ==
  reject(cleanup(L), [kind |-> "TimeoutError", text |-> <<L.timeout>>])

onLine(L, line) ==
  LET L1 == [L EXCEPT !.stderr = @ \o line \o <<"\n">>]
  IN IF ~Matches(line) THEN L1 ELSE resolve(cleanup(L1), Capture(line))

----------------------------------------------------------------------------
(* Launcher.launch                                                         *)

\* catch (e) { forceKillChrome(); throw e; }: an exception of
\* forceKillChrome leaves the catch block in place of e.
catchLaunch(W, i, ok, e) ==
  LET W1 == forceKillChrome(W, i, ok)
  IN [W1 EXCEPT !.threw = FALSE,
                !.launch[i].pc = "failed",
                !.launch[i].launchResult = "rejected",
                !.launch[i].cause = e,
                !.launch[i].launchErr = IF W1.threw THEN "ESRCH" ELSE e,
                !.launch[i].fkAtReject = W1.launch[i].fkRuns]

\* The continuation of `await waitForWSEndpoint(...)`.
afterHandshake(W, i, ok) ==
  LET L == W.launch[i]
  IN IF L.pc # "handshake" \/ L.hsState = "pending" THEN W
     ELSE IF L.hsState = "resolved" THEN [W EXCEPT !.launch[i].pc = "connecting"]
     ELSE catchLaunch(W, i, ok, L.hsError.kind)

\* The subscriptions made without reading handleSIGINT.
Subscriptions_AlwaysSIGINT(o) ==
  <<"exit", "SIGINT">>
  \o (IF o.handleSIGTERM THEN <<"SIGTERM">> ELSE <<>>)
  \o (IF o.handleSIGHUP THEN <<"SIGHUP">> ELSE <<>>)

\* The subscriptions of lines 127-133, in the order they are made.
Subscriptions(o) ==
  <<"exit">>
  \o (IF o.handleSIGINT THEN <<"SIGINT">> ELSE <<>>)
  \o (IF o.handleSIGTERM THEN <<"SIGTERM">> ELSE <<>>)
  \o (IF o.handleSIGHUP THEN <<"SIGHUP">> ELSE <<>>)

HandlerOf(ev) == IF ev \in {"exit", "SIGINT"} THEN "forceKillChrome" ELSE "killChrome"

RECURSIVE subscribe(_, _, _)
subscribe(em, i, evs) ==
  IF evs = <<>> THEN em
  ELSE subscribe(addEventListener(em, Head(evs), [id |-> i, fn |-> HandlerOf(Head(evs))]),
                 i, Tail(evs))

\* The options that decide the lifecycle of a launch: the signal options, the
\* profile directory (none, as an argument, as userDataDir, both), the spawn's
\* outcome and the timeout; appMode, devtools and headless are left unset.
LaunchOptions ==
  {o \in AllOptions :
     /\ ~o.appMode /\ ~o.devtools /\ o.headless = "undefined"
     /\ \A k \in 1..Len(o.args) : StartsWithUserDataDir(o.args[k])}

\* launch() up to its first await on the handshake.
startLaunch(o) ==
  [IdleLaunch EXCEPT
     !.pc = "handshake",
     !.handleSIGINT = o.handleSIGINT, !.handleSIGTERM = o.handleSIGTERM,
     !.handleSIGHUP = o.handleSIGHUP,
     !.options = o,
     !.temporaryUserDataDir = AllocatesTemporaryDir(o),
     !.dir = IF AllocatesTemporaryDir(o) THEN "present" ELSE "none",
     !.pid = o.spawnOk,
     !.listeners = Subscriptions(o),
     !.timeoutOpt = o.timeout,
     !.timeout = IF o.timeout # 0 THEN o.timeout ELSE DefaultTimeout,
     !.timeoutId = IF (IF o.timeout # 0 THEN o.timeout ELSE DefaultTimeout) # 0
                     THEN "armed" ELSE "none",
     !.hsListeners = {"line", "close", "exit", "error"}]

\* Writes a world back to the variables.
Commit(W) ==
  /\ launch' = W.launch
  /\ exitEmitter' = W.exitEmitter

Launch(i, o) ==
  /\ process.alive
  /\ launch[i].pc = "idle"
  /\ \A j \in Launches : launch[j].pc = "idle" => j >= i   \* launches are named in call order
  /\ launch' = [launch EXCEPT ![i] = startLaunch(o)]
  /\ exitEmitter' = subscribe(exitEmitter, i, Subscriptions(o))
  /\ UNCHANGED <<processListeners, process, fan>>

\* One event of launch i: its handler h changes the closure, then the
\* continuation of launch's await runs.
Event(i, L1, ok) ==
  /\ Commit(afterHandshake([World EXCEPT !.launch[i] = L1], i, ok))
  /\ UNCHANGED <<processListeners, process, fan>>

StderrLine(i, line, ok, maxLines) ==
  LET L == launch[i]
      L1 == [L EXCEPT !.nLines = @ + 1,
                      !.seen = IF L.hsState = "pending" THEN Append(@, line) ELSE @]
  IN /\ process.alive /\ L.pid /\ ~L.rlClosed /\ L.nLines < maxLines
     /\ Event(i, IF "line" \in L.hsListeners THEN onLine(L1, line) ELSE L1, ok)

RlClose(i, ok) ==
  LET L == launch[i]
      L1 == [L EXCEPT !.rlClosed = TRUE]
  IN /\ process.alive /\ (L.pid \/ L.errored) /\ ~L.rlClosed
     /\ Event(i, IF "close" \in L.hsListeners THEN onClose(L1, FALSE) ELSE L1, ok)

ChildExit(i, gone, ok) ==
  LET L == launch[i]
      L1 == [L EXCEPT !.exited = TRUE, !.groupGone = gone]
  IN /\ process.alive /\ L.pid /\ ~L.exited
     /\ Event(i, IF "exit" \in L.hsListeners THEN onClose(L1, FALSE) ELSE L1, ok)

\* A failed spawn: no pid, and 'error' is emitted on the next tick.
ChildError(i, ok) ==
  LET L == launch[i]
      L1 == [L EXCEPT !.errored = TRUE]
  IN /\ process.alive /\ L.pc # "idle" /\ ~L.pid /\ ~L.errored
     /\ Event(i, IF "error" \in L.hsListeners THEN onClose(L1, TRUE) ELSE L1, ok)

Timeout(i, ok) ==
  LET L == launch[i]
  IN /\ process.alive /\ L.timeoutId = "armed" /\ (L.pid \/ L.errored)
     /\ Event(i, onTimeout([L EXCEPT !.timeoutId = "fired"]), ok)

\* 'close' comes after the exit (or the error) and the end of the stdio streams.
ChildClose(i) ==
  LET L == launch[i]
  IN /\ process.alive /\ (L.exited \/ L.errored) /\ L.rlClosed /\ ~L.chromeClosed
     /\ launch' = [launch EXCEPT ![i] = onChromeClose(L)]
     /\ UNCHANGED <<exitEmitter, processListeners, process, fan>>

RemoveFolderDone(i, ok) ==
  LET L == launch[i]
  IN /\ process.alive /\ L.asyncRm = "pending"
     /\ (~ok => L.dir = "present")
     /\ launch' = [launch EXCEPT ![i] = onRemoveFolderAsync(L, ok)]
     /\ UNCHANGED <<exitEmitter, processListeners, process, fan>>

\* Connection.create resolves: launch returns Browser.create(connection, options, killChrome).
ConnectionCreated(i) ==
  /\ process.alive /\ launch[i].pc = "connecting"
  /\ launch' = [launch EXCEPT ![i].pc = "launched", ![i].connection = TRUE,
                              ![i].launchResult = "resolved"]
  /\ UNCHANGED <<exitEmitter, processListeners, process, fan>>

ConnectionFailed(i, ok) ==
  /\ process.alive /\ launch[i].pc = "connecting"
  /\ Commit(catchLaunch(World, i, ok, "ConnectError"))
  /\ UNCHANGED <<processListeners, process, fan>>

\* The caller closes the browser: Browser.close() calls the close hook, killChrome.
BrowserClose(i, ok, maxCalls) ==
  LET W1 == killChrome(World, i, ok)
  IN /\ process.alive /\ launch[i].pc = "launched"
     /\ launch[i].closeCalls < maxCalls
     /\ Commit([W1 EXCEPT !.launch[i].closeCalls = @ + 1,
                          !.launch[i].closeThrows = IF W1.threw THEN @ + 1 ELSE @])
     /\ UNCHANGED <<processListeners, process, fan>>

----------------------------------------------------------------------------
(* ExitEmitter                                                             *)

\* EventEmitter.emit calls the handlers registered when it starts, in
\* registration order; a handler that throws ends it.
RECURSIVE emit(_, _, _, _)
emit(W, snapshot, ok, invoked) ==
  IF snapshot = <<>> \/ W.threw THEN [w |-> W, invoked |-> invoked]
  ELSE LET h == Head(snapshot)
           W1 == IF h.fn = "killChrome" THEN killChrome(W, h.id, ok[h.id])
                 ELSE forceKillChrome(W, h.id, ok[h.id])
       IN emit(W1, Tail(snapshot), ok, Append(invoked, h))

Holding == {i \in Launches : launch[i].listeners # <<>>}

ExitCode(sig) == CASE sig = "SIGINT" -> 2 [] sig = "SIGTERM" -> 15 [] sig = "SIGHUP" -> 1

\* sigHandler(eventName, exitCode): an exception of a handler is uncaught, the
\* process dies of it with status 1 and process.exit(exitCode) is not reached.
sigHandler(sig, ok) ==
  LET r == emit(World, exitEmitter[sig], ok, <<>>)
  IN /\ processListeners' = FALSE
     /\ Commit(r.w)
     /\ fan' = [event |-> sig, held |-> Holding, snapshot |-> exitEmitter[sig], invoked |-> r.invoked,
                threw |-> r.w.threw]
     /\ process' = [alive |-> FALSE,
                    exitCode |-> IF r.w.threw THEN 1 ELSE ExitCode(sig),
                    uncaught |-> r.w.threw]

\* exitHandler(exitCode): the process is exiting with status 0.
exitHandler(ok) ==
  LET r == emit(World, exitEmitter["exit"], ok, <<>>)
  IN /\ processListeners' = FALSE
     /\ Commit(r.w)
     /\ fan' = [event |-> "exit", held |-> Holding, snapshot |-> exitEmitter["exit"], invoked |-> r.invoked,
                threw |-> r.w.threw]
     /\ process' = [alive |-> FALSE, exitCode |-> IF r.w.threw THEN 1 ELSE 0,
                    uncaught |-> r.w.threw]

Signal(sig, ok) == process.alive /\ processListeners /\ sigHandler(sig, ok)

ProcessExit(ok) == process.alive /\ processListeners /\ exitHandler(ok)

----------------------------------------------------------------------------
LaunchStep(i) ==
  \/ \E o \in LaunchOptions : Launch(i, o)
  \/ \E line \in Lines, ok \in BOOLEAN : StderrLine(i, line, ok, MaxLines)
  \/ \E ok \in BOOLEAN : RlClose(i, ok)
  \/ \E gone, ok \in BOOLEAN : ChildExit(i, gone, ok)
  \/ \E ok \in BOOLEAN : ChildError(i, ok)
  \/ \E ok \in BOOLEAN : Timeout(i, ok)
  \/ ChildClose(i)
  \/ \E ok \in BOOLEAN : RemoveFolderDone(i, ok)
  \/ ConnectionCreated(i)
  \/ \E ok \in BOOLEAN : ConnectionFailed(i, ok)
  \/ \E ok \in BOOLEAN : BrowserClose(i, ok, MaxCloseCalls)

ProcessStep ==
  \/ \E sig \in {"SIGINT", "SIGTERM", "SIGHUP"}, ok \in [Launches -> BOOLEAN] : Signal(sig, ok)
  \/ \E ok \in [Launches -> BOOLEAN] : ProcessExit(ok)

\* One supervised child.
Next == LaunchStep(1) \/ ProcessStep

Spec == Init /\ [][Next]_vars

\* Two supervised children on the one exitEmitter. Both children spawn; the
\* first launch takes every combination of the signal options and of the
\* directory's ownership, the second the default signal options and a
\* userDataDir of the caller; a child writes its endpoint line or nothing, and
\* nothing once the handshake is settled (no handler is left to read it); a launch
\* fails by the child's exit or the end of its stderr, and Connection.create
\* succeeds.
FanOptions(i) ==
  {o \in AllOptions :
     /\ o.spawnOk /\ o.timeout = 0
     /\ o \in LaunchOptions /\ o.args = <<>>
     /\ (i # 1 => o.handleSIGINT /\ o.handleSIGTERM /\ o.handleSIGHUP /\ o.userDataDir)}

FanLines == {<<"P", "W", "c">>}

FanStep(i) ==
  \/ \E o \in FanOptions(i) : Launch(i, o)
  \/ /\ launch[i].hsState = "pending"
     /\ \E line \in FanLines, ok \in BOOLEAN : StderrLine(i, line, ok, FanMaxLines)
  \/ \E ok \in BOOLEAN : RlClose(i, ok)
  \/ \E gone, ok \in BOOLEAN : ChildExit(i, gone, ok)
  \/ ChildClose(i)
  \/ \E ok \in BOOLEAN : RemoveFolderDone(i, ok)
  \/ ConnectionCreated(i)
  \/ \E ok \in BOOLEAN : BrowserClose(i, ok, FanMaxCloseCalls)

NextFan == (\E i \in Launches : FanStep(i)) \/ ProcessStep

SpecFan == Init /\ [][NextFan]_vars

\* The argument composer alone: launch() is called with every combination of
\* appMode, devtools, headless, userDataDir and args, and chromeArguments is
\* what each call hands to childProcess.spawn.
ArgOptions ==
  {o \in AllOptions :
     /\ o.handleSIGINT /\ o.handleSIGTERM /\ o.handleSIGHUP
     /\ o.spawnOk /\ o.timeout = 0}

NextArgs == \E i \in Launches, o \in ArgOptions : Launch(i, o)

SpecArgs == Init /\ [][NextArgs]_vars

----------------------------------------------------------------------------
(* The claims                                                              *)

Started == {i \in Launches : launch[i].pc # "idle"}

\* C1: the promise of waitForWSEndpoint settles exactly once: over every
\* interleaving of line, reader close, child exit, child error and timer,
\* resolve and reject are called at most once in total, and the promise's
\* state is that of the one call made.
C1_SettlesOnce ==
  \A i \in Launches :
    LET L == launch[i]
    IN /\ L.resolveCalls + L.rejectCalls <= 1
       /\ (L.hsState = "resolved") = (L.resolveCalls = 1)
       /\ (L.hsState = "rejected") = (L.rejectCalls = 1)
       /\ (L.pc = "handshake") = (i \in Started /\ L.hsState = "pending")

\* The handshake resolved and a line, the reader's close and the child's
\* exit all came after it.
C1_Witness ==
  \E i \in Launches :
    LET L == launch[i]
    IN /\ L.hsState = "resolved" /\ L.stderr = <<"P", "W", "c", "\n">>
       /\ L.nLines = 2 /\ L.rlClosed /\ L.exited

\* C2 as stated: the removal of the temporary directory is executed at most
\* once per launched child.
C2_CleanupAtMostOnce ==
  \A i \in Launches : launch[i].rmSync + launch[i].rmAsync <= 1

\* C2 as amended: the removal is executed once by every run of forceKillChrome
\* that gets past its kill, and once more by the close handler, of a launch
\* that owns a temporary directory; the directory itself is deleted at most
\* once.
C2_CleanupPerPath ==
  \A i \in Launches :
    LET L == launch[i]
    IN /\ L.rmSync = (IF L.temporaryUserDataDir THEN L.fkRuns - L.fkThrows ELSE 0)
       /\ L.rmAsync = (IF L.temporaryUserDataDir /\ L.chromeClosed THEN 1 ELSE 0)
       /\ L.deleted <= 1
       /\ (L.deleted = 1) = (L.dir = "absent")

\* The graceful and the forced path both ran, then the close handler: three
\* removals, one deletion.
C2_Witness ==
  \E i \in Launches :
    LET L == launch[i]
    IN /\ L.kcRuns >= 1 /\ L.fkRuns >= 2 /\ L.rmSync >= 2 /\ L.rmAsync = 1
       /\ L.deleted = 1

\* C3: graceful close and forced kill, in any order and number, send at most
\* one kill request to the child's process group.
C3_AtMostOneKill ==
  \A i \in Launches : launch[i].kills <= 1

\* C4: once the child's close was observed, none of the launch's handlers is
\* registered on exitEmitter.
C4_NoSubscriptionAfterClose ==
  \A i \in Launches :
    launch[i].chromeClosed =>
      /\ launch[i].listeners = <<>>
      /\ \A e \in Events : \A k \in 1..Len(exitEmitter[e]) : exitEmitter[e][k].id # i

\* C5: when launch is rejected, forceKillChrome has run, the caller gets the
\* failure that caused the rejection, and a child still running has been sent
\* a kill request.
C5_FailureAfterForcedKill ==
  \A i \in Launches :
    LET L == launch[i]
    IN L.launchResult = "rejected" =>
         /\ L.fkAtReject >= 1
         /\ L.launchErr = L.cause
         /\ (L.pid /\ ~L.exited => L.kills >= 1)

\* C9: the promise killChrome returns is not fulfilled before the child's
\* close was observed nor, with a temporary directory, before the removal the
\* close handler started has completed.
C9_FulfilledAfterCloseAndRemoval ==
  \A i \in Launches :
    LET L == launch[i]
    IN L.waitForChromeToClose = "fulfilled" =>
         /\ L.chromeClosed
         /\ (L.temporaryUserDataDir => L.asyncRm = "done")

\* killChrome was called on a launch with a temporary directory and its
\* promise is fulfilled.
C9_Witness ==
  \E i \in Launches :
    LET L == launch[i]
    IN L.closeCalls >= 1 /\ L.temporaryUserDataDir /\ L.waitForChromeToClose = "fulfilled"

\* C10: no call of forceKillChrome ends by throwing.
C10_ForceKillNeverThrows ==
  \A i \in Launches : launch[i].fkThrows = 0

\* The handlers a signal's event is expected to hold: one per launch that
\* held its subscriptions and whose option for the signal is not false, in
\* the order of the launches.
RECURSIVE ExpectedHandlers(_, _, _)
ExpectedHandlers(ids, sig, from) ==
  IF from \notin Launches THEN <<>>
  ELSE (IF from \in ids /\ ( \/ sig = "SIGINT" /\ launch[from].handleSIGINT
                             \/ sig = "SIGTERM" /\ launch[from].handleSIGTERM
                             \/ sig = "SIGHUP" /\ launch[from].handleSIGHUP )
          THEN <<[id |-> from, fn |-> HandlerOf(sig)]>> ELSE <<>>)
       \o ExpectedHandlers(ids, sig, from + 1)

InvokedIds == {fan.invoked[k].id : k \in 1..Len(fan.invoked)}

\* C6 as stated: a SIGINT delivered while a launch's child is running invokes
\* that launch's forceKillChrome, whatever its options.
C6_SigintAlwaysForceKills ==
  fan.event = "SIGINT" =>
    \A i \in fan.held :
      launch[i].pid /\ ~launch[i].chromeClosed => i \in InvokedIds

\* C6 as amended: SIGINT invokes forceKillChrome of exactly the launches whose
\* handleSIGINT is not false and whose subscriptions are still held, in launch
\* order, up to the first of them that throws; a launch with handleSIGINT =
\* false is not force-killed by SIGINT.
C6_SigintForceKillsUnlessDisabled ==
  fan.event = "SIGINT" =>
    /\ fan.snapshot = ExpectedHandlers(fan.held, "SIGINT", 1)
    /\ Len(fan.invoked) <= Len(fan.snapshot)
    /\ fan.invoked = SubSeq(fan.snapshot, 1, Len(fan.invoked))
    /\ (~fan.threw => fan.invoked = fan.snapshot)
    /\ (fan.threw => /\ fan.invoked # <<>>
                     /\ launch[fan.invoked[Len(fan.invoked)].id].fkThrows >= 1)
    /\ \A i \in InvokedIds : launch[i].handleSIGINT /\ launch[i].fkRuns >= 1

\* SIGINT reached two running children: the one launched with handleSIGINT =
\* false was not force-killed, the other was.
C6_Witness ==
  /\ fan.event = "SIGINT" /\ fan.held = {1, 2}
  /\ ~launch[1].handleSIGINT /\ launch[1].pid /\ ~launch[1].exited
  /\ launch[1].fkRuns = 0 /\ launch[1].kills = 0
  /\ InvokedIds = {2} /\ launch[2].kills = 1

\* C7: SIGTERM (SIGHUP) invokes killChrome of a launch that holds its
\* subscriptions if and only if its handleSIGTERM (handleSIGHUP) is not false.
C7_SigtermSighupToggle ==
  fan.event \in {"SIGTERM", "SIGHUP"} =>
    \A i \in fan.held :
      (i \in InvokedIds) =
        (IF fan.event = "SIGTERM" THEN launch[i].handleSIGTERM ELSE launch[i].handleSIGHUP)

\* C8: a signal invokes every handler registered for it once, in registration
\* order, and then the process ends with the signal's status code.
C8_FanOutThenExit ==
  fan.event \in {"SIGINT", "SIGTERM", "SIGHUP"} =>
    /\ fan.invoked = fan.snapshot
    /\ ~process.alive /\ process.exitCode = ExitCode(fan.event)

\* C11: killChrome chooses its path by the ownership of the directory: a call
\* of a launch that owns a temporary directory runs forceKillChrome once and
\* sends no Browser.close; a call of a launch that owns none sends
\* Browser.close once if the connection exists, and neither runs
\* forceKillChrome nor sends a kill; either call has released the launch's
\* subscriptions, also when the kill it went on to throws.
C11_GracefulPathByOwnership ==
  [][\A i \in Launches :
       launch'[i].kcRuns # launch[i].kcRuns =>
         /\ launch'[i].kcRuns = launch[i].kcRuns + 1
         /\ launch'[i].listeners = <<>>
         /\ \A e \in Events : \A k \in 1..Len(exitEmitter'[e]) : exitEmitter'[e][k].id # i
         /\ IF launch[i].temporaryUserDataDir
              THEN /\ launch'[i].fkRuns = launch[i].fkRuns + 1
                   /\ launch'[i].browserClose = launch[i].browserClose
              ELSE /\ launch'[i].fkRuns = launch[i].fkRuns
                   /\ launch'[i].kills = launch[i].kills
                   /\ launch'[i].browserClose =
                        launch[i].browserClose + (IF launch[i].connection THEN 1 ELSE 0)]_vars

C11_Witness ==
  /\ launch[1].temporaryUserDataDir /\ launch[1].connection
  /\ launch[1].kcRuns = 2 /\ launch[1].fkRuns = 2 /\ launch[1].browserClose = 0
  /\ launch[1].listeners = <<>>

\* C12: the deadline is armed only if the timeout option is greater than 0: a
\* launch whose timeout option is 0 has no timer and is never rejected with the
\* timeout error, and a timeout error names the timeout option of its launch.
C12_DeadlineOnlyIfPositive ==
  \A i \in Started :
    /\ launch[i].timeoutOpt = 0 =>
         launch[i].timeoutId = "none" /\ launch[i].hsError.kind # "TimeoutError"
    /\ launch[i].hsError.kind = "TimeoutError" =>
         launch[i].timeoutOpt > 0 /\ launch[i].hsError.text = <<launch[i].timeoutOpt>>

\* C13: a launch allocates a temporary directory exactly when no argument of
\* the caller starts with --user-data-dir and no userDataDir option is given;
\* only that directory is ever passed to a removal: a userDataDir of the caller
\* never is, and a launch that allocated nothing removes nothing.
C13_RemovesOnlyItsOwnDirectory ==
  \A i \in Started :
    LET L == launch[i]
        callerArg == \E k \in 1..Len(L.options.args) : L.options.args[k][1] = "--user-data-dir"
    IN /\ L.temporaryUserDataDir = (~callerArg /\ ~L.options.userDataDir)
       /\ "options.userDataDir" \notin L.rmTargets
       /\ ~L.temporaryUserDataDir =>
            /\ L.rmTargets \subseteq {"null"}
            /\ L.rmSync = 0 /\ L.rmAsync = 0 /\ L.deleted = 0

C13_Witness ==
  /\ launch[1].options.userDataDir /\ launch[1].options.args = <<>>
  /\ launch[1].fkRuns >= 1 /\ launch[1].chromeClosed
  /\ launch[1].rmTargets = {"null"}

\* C14: the subscriptions of different launches are independent: the handlers
\* registered on exitEmitter for a launch are those its own array `listeners`
\* holds, so a teardown of one launch removes no handler of another; and a
\* signal delivered after one of two launches was torn down invokes each
\* handler the other has registered for that signal exactly once.
C14_IndependentSubscriptions ==
  /\ \A j \in Launches, e \in Events :
       Cardinality({k \in 1..Len(exitEmitter[e]) : exitEmitter[e][k].id = j})
         = Cardinality({k \in 1..Len(launch[j].listeners) : launch[j].listeners[k] = e})
  /\ fan.event \in {"SIGINT", "SIGTERM", "SIGHUP"} =>
       \A a \in Started \ fan.held, b \in fan.held :
         Cardinality({k \in 1..Len(fan.invoked) : fan.invoked[k].id = b})
           = (IF CASE fan.event = "SIGINT" -> launch[b].handleSIGINT
                   [] fan.event = "SIGTERM" -> launch[b].handleSIGTERM
                   [] fan.event = "SIGHUP" -> launch[b].handleSIGHUP
              THEN 1 ELSE 0)

C14_Witness ==
  /\ fan.event = "SIGTERM" /\ fan.held = {2}
  /\ launch[1].pc = "launched" /\ launch[1].kcRuns >= 1
  /\ fan.invoked = <<[id |-> 2, fn |-> "killChrome"]>>

\* C15 as stated: AUTOMATION_ARGS are among the arguments of the child if and
\* only if appMode is not set and devtools is not on.
C15_AutomationUnlessAppModeOrDevtools ==
  \A i \in Started :
    LET a == chromeArguments(launch[i].options)
    IN (\A k \in 1..Len(AUTOMATION_ARGS) : AUTOMATION_ARGS[k] \in Range(a))
         = (~launch[i].options.appMode /\ ~launch[i].options.devtools)

\* C15, amended: for every combination of appMode, devtools and headless, the
\* arguments of the child are DEFAULT_ARGS followed by AUTOMATION_ARGS if
\* appMode is not set, and hold no automation flag if appMode is set; devtools
\* and headless have no part in it.
C15_AutomationUnlessAppMode ==
  \A i \in Started :
    LET a == chromeArguments(launch[i].options)
        n == Len(DEFAULT_ARGS)
    IN /\ SubSeq(a, 1, n) = DEFAULT_ARGS
       /\ IF launch[i].options.appMode
            THEN \A k \in 1..Len(AUTOMATION_ARGS) : AUTOMATION_ARGS[k] \notin Range(a)
            ELSE /\ Len(a) >= n + Len(AUTOMATION_ARGS)
                 /\ SubSeq(a, n + 1, n + Len(AUTOMATION_ARGS)) = AUTOMATION_ARGS

C15_Witness ==
  /\ 1 \in Started
  /\ launch[1].options.devtools /\ ~launch[1].options.appMode
  /\ launch[1].options.headless = "true"
  /\ <<"--enable-automation">> \in Range(chromeArguments(launch[1].options))
  /\ <<"--headless">> \notin Range(chromeArguments(launch[1].options))

\* C16: the step that settles the handshake disarms all four participants of
\* the race: the timer is no longer armed and the line, reader-close,
\* child-exit and child-error listeners are detached; and in every step after
\* that no handshake handler runs: resolve and reject are not called again,
\* the outcome stays, and the stderr buffer does not change.
C16_DisarmedOnSettle ==
  [][\A i \in Launches :
       launch'[i].hsState # "pending" =>
         /\ launch'[i].hsListeners = {}
         /\ launch'[i].timeoutId # "armed"
         /\ launch[i].hsState # "pending" =>
              /\ launch'[i].stderr = launch[i].stderr
              /\ launch'[i].resolveCalls = launch[i].resolveCalls
              /\ launch'[i].rejectCalls = launch[i].rejectCalls
              /\ launch'[i].hsState = launch[i].hsState
              /\ launch'[i].endpoint = launch[i].endpoint
              /\ launch'[i].hsError = launch[i].hsError]_vars

C16_Witness ==
  /\ launch[1].hsState = "rejected" /\ launch[1].rejectCalls = 1
  /\ launch[1].timeoutId = "cleared" /\ launch[1].hsListeners = {}
  /\ launch[1].nLines = 2 /\ launch[1].stderr = <<>>

\* C17: no kill request is made for a child after its exit event: in a step
\* taken when the child has exited, also before its close event, process.kill
\* is not called for it, whether the call would succeed or throw.
C17_NoKillAfterExit ==
  [][\A i \in Launches :
       launch[i].exited =>
         launch'[i].kills + launch'[i].fkThrows = launch[i].kills + launch[i].fkThrows]_vars

\* The lines, each followed by a newline, in their order.
RECURSIVE C18_Text(_)
C18_Text(lines) ==
  IF lines = <<>> THEN <<>> ELSE Head(lines) \o <<"\n">> \o C18_Text(Tail(lines))

C18_IsEndpointLine(line) == Len(line) >= 2 /\ line[1] = "P" /\ line[2] = "W"

\* C18: a rejection by the reader's close, the child's exit or its error
\* carries exactly the stderr lines received before it, in arrival order, each
\* followed by a newline; the handshake is resolved if and only if a line
\* "DevTools listening on ws://..." was received, which then is the last line
\* received and the only such one, and the endpoint is the text of that line
\* from ws:// on, unchanged.
C18_DiagnosticsAndEndpoint ==
  \A i \in Started :
    LET L == launch[i]
        n == Len(L.seen)
    IN /\ L.hsError.kind \in {"LaunchError", "LaunchErrorWithCause"} =>
            L.hsError.text = C18_Text(L.seen)
       /\ (L.hsState = "resolved") = (\E k \in 1..n : C18_IsEndpointLine(L.seen[k]))
       /\ L.hsState = "resolved" =>
            /\ C18_IsEndpointLine(L.seen[n])
            /\ \A k \in 1..(n - 1) : ~C18_IsEndpointLine(L.seen[k])
            /\ L.endpoint = SubSeq(L.seen[n], 2, Len(L.seen[n]))

C18_Witness ==
  /\ launch[1].hsState = "rejected" /\ launch[1].hsError.kind = "LaunchError"
  /\ launch[1].seen = << <<"c">>, <<"c", "P", "W">> >>
  /\ launch[1].hsError.text = <<"c", "\n", "c", "P", "W", "\n">>

\* C19: once the close event of the child has fired and the asynchronous
\* removal started by its handler, if any, has ended, with success or with an
\* error, the promise killChrome returns is settled.
C19_SettledAfterClose ==
  \A i \in Started :
    launch[i].chromeClosed /\ launch[i].asyncRm # "pending" =>
      launch[i].waitForChromeToClose # "pending"

\* C20: when the process has ended on a SIGTERM or SIGHUP, every launch that
\* was subscribed to that signal and whose child has not exited has sent its
\* child a shutdown request, a kill or Browser.close.
C20_ShutdownRequestBeforeExit ==
  fan.event \in {"SIGTERM", "SIGHUP"} /\ ~process.alive =>
    \A i \in fan.held :
      /\ IF fan.event = "SIGTERM" THEN launch[i].handleSIGTERM ELSE launch[i].handleSIGHUP
      /\ launch[i].pid /\ ~launch[i].exited
      => launch[i].kills >= 1 \/ launch[i].browserClose >= 1

====
